---- MODULE Spec2Model ----
(***************************************************************************)
(* Model of linkerd2-proxy's probe-buffer dispatch loop                    *)
(* (linkerd/probe-buffer/src/dispatch.rs, Dispatch::poll) and of its       *)
(* per-connection server (linkerd/app/core/src/proxy/server.rs,            *)
(* ProtocolDetect::detect and Server::call).  The two are independent:     *)
(* Spec and FairSpec run the dispatch loop, ServerSpec one connection.     *)
(*                                                                         *)
(* The Dispatch future runs as one task.  Each visit of the task to the    *)
(* inner service, to the request channel or to the probe timer is one      *)
(* step of the model; pc is the task's position in Dispatch::poll.         *)
(* Producers, the timer, the inner service's readiness and the spawned     *)
(* response futures run concurrently with it.                              *)
(***************************************************************************)
EXTENDS Integers, Sequences, FiniteSets, TLC

\* ---- bounds of the model ------------------------------------------------
MaxEnv == 3        \* envelopes the producers create in one run
Capacity == 2      \* bound of the mpsc channel
NumSenders == 2    \* Sender handles alive at the start
ProbeTimeout == 2  \* probe_timeout, in timer ticks
MaxStream == 3     \* bytes a client has sent when the connection is accepted
MaxReqs == 2       \* request cycles a client starts on one HTTP connection

\* ProtocolDetect::PEEK_CAPACITY
PEEK_CAPACITY == 8192

VARIABLES
    pc,            \* position of the Dispatch task in poll()
    probe,         \* self.probe: None, or Some(ticks left before the Delay is due)
    queue,         \* envelopes buffered in the channel read through self.rx
    senders,       \* Sender handles still alive
    nextId,        \* id the next envelope gets (ids follow the enqueue order)
    rxDropped,     \* the Dispatch future, and self.rx with it, was dropped
    svc,           \* what self.inner.poll_ready() answers now
    shared,        \* the Failed value built when poll_ready failed: None or Some
    calls,         \* ids passed to self.inner.call, in call order
    inflight,      \* spawned response futures that have not completed
    replies,       \* per envelope, the values sent on its reply sender tx
    dropped,       \* envelopes whose tx was dropped without a send
    debugBuild,    \* debug_assert! is compiled in
    atFailure,     \* history: envelopes in the channel when poll_ready failed
    lastOp,        \* history: last of poll_ready / call / rx.poll without envelope
    lastReady,     \* history: result of the last poll_ready
    lastProbe,     \* history: outcome of the last poll of an armed probe
    freshReady     \* history: a Ready poll_ready no call has consumed yet

vars == <<pc, probe, queue, senders, nextId, rxDropped, svc, shared, calls,
          inflight, replies, dropped, debugBuild, atFailure, lastOp,
          lastReady, lastProbe, freshReady>>

\* One accepted connection going through ProtocolDetect and Server.
VARIABLES
    port,          \* tls.addrs.target_addr().port()
    orig,          \* history: the bytes on the stream when it was accepted
    sock,          \* bytes not yet read from the underlying stream
    ioBuf,         \* bytes the BoxedIo handed on replays before reading sock
    peeks,         \* peeks performed on the stream
    detected,      \* detect(): "no" (not run), "ok", "err" (io::Error)
    http,          \* Protocol.http: "unset", "None", "Http1" or "H2"
    outer,         \* outer future of call: "none", "pending", "ok" or its error
    inner,         \* inner future: "none", "ready", "running", "ok" or its error
    forwardCalls,  \* invocations of the forward_tcp capability
    httpServices,  \* services built by make_http.new_service
    loops,         \* serving strategies started on the connection, in order
    fwdErr,        \* history: error the forward capability returned on accept
    connErr,       \* history: error the running forward or serving loop returned
    signaled,      \* the drain's shutdown signal was sent
    handle,        \* this connection holds a drain::Watch (or its release handle)
    graceful,      \* the watch's callback ran graceful_shutdown() on the connection
    server,        \* the Server, with its own drain::Watch, is alive
    quiesced,      \* the drain resolved: signalled and every Watch released
    reqOpen,       \* a request cycle is in flight on the HTTP connection
    reqs           \* request cycles started on the HTTP connection

ioVars == <<port, orig, sock, ioBuf, peeks, detected, http>>
callVars == <<outer, inner, forwardCalls, httpServices, loops, fwdErr, connErr>>
drainVars == <<signaled, handle, graceful, server, quiesced>>
reqVars == <<reqOpen, reqs>>
svars == <<ioVars, callVars, drainVars, reqVars>>

\* ---- values ---------------------------------------------------------------
None == <<>>
Some(x) == <<x>>
Unwrap(o) == o[1]

EnvIds == 1..MaxEnv
Errors == {"e1", "e2"}            \* errors poll_ready or call may produce

\* Failed(Arc::new(error.into()))
Failed(err) == [kind |-> "Failed", error |-> err]
\* res.map_err(Into::into) of a call's result
CallResults == {[kind |-> "Ok", error |-> "-"]} \cup
               {[kind |-> "Err", error |-> e] : e \in Errors}

\* ---- the decisions of Dispatch::poll -------------------------------------

\* Outcomes Delay::poll can report for an armed probe with n ticks left.
ProbePoll(n) == IF n = 0 THEN {"Ready", "Err"} ELSE {"NotReady", "Err"}

\* Mutant of NeedsReady: readiness is polled on every iteration.
NeedsReadyAlways(p, o) == TRUE

\* Mutant of NeedsReady: a timer error is taken for not-yet-due.
NeedsReadyOnlyWhenFired(p, o) == IF p = None THEN TRUE ELSE o = "Ready"

\* needs_ready: no probe, or the probe's poll was anything but NotReady.
NeedsReady(p, o) == IF p = None THEN TRUE ELSE o # "NotReady"

\* Mutants of AfterPollReady: the failure arm, or the not-ready arm, falls
\* through to the receive phase instead of returning.
AfterPollReadyErrFallsThrough(r) ==
    IF r = "NotReady" THEN "Suspended" ELSE "Recv"
AfterPollReadyNotReadyFallsThrough(r) ==
    IF r = "Err" THEN "Drain" ELSE "Recv"

\* Where poll() goes after self.inner.poll_ready() answered r.
AfterPollReady(r) ==
    CASE r = "NotReady" -> "Suspended"
      [] r = "Err"      -> "Drain"
      [] OTHER          -> "Recv"

\* Mutant of RxPoll: a closed, empty channel is taken for an idle one.
RxPollNeverClosed(q, s) == IF q # <<>> THEN "Some" ELSE "NotReady"

\* self.rx.poll() on a channel holding q with s senders alive.
RxPoll(q, s) ==
    IF q # <<>> THEN "Some"
    ELSE IF s = 0 THEN "Closed" ELSE "NotReady"

\* Mutants: the newest envelope is handed out first; the envelope handed out
\* stays in the channel.
NextEnvelopeNewest(q) == q[Len(q)]
RemainingKeepsHead(q) == q

\* The envelope rx.poll() hands out, and what stays in the channel.
NextEnvelope(q) == Head(q)
Remaining(q) == Tail(q)

\* Outcomes of polling the Delay just created in the receive phase.
FreshProbePoll == {"NotReady", "Ready", "Err"}

\* Mutant of EndOfIteration: the loop goes straight back to the receive phase.
EndOfIterationToRecv(p, dbg) ==
    IF p # None /\ dbg THEN "Panicked" ELSE "Recv"

\* The end of a loop iteration: debug_assert!(self.probe.is_none()), then the
\* top of the loop.
EndOfIteration(p, dbg) ==
    IF p # None /\ dbg THEN "Panicked" ELSE "Top"

\* The shared failure cloned for one envelope.
SharedClone(s) == Unwrap(s)

\* ---- initial state: Dispatch::new, nothing sent yet ----------------------
Range(q) == {q[i] : i \in 1..Len(q)}

DispatchInit ==
    /\ pc = "Top"
    /\ probe = None
    /\ queue = <<>>
    /\ senders = NumSenders
    /\ nextId = 1
    /\ rxDropped = FALSE
    /\ svc \in {"Ready", "NotReady", "Err"}
    /\ shared = None
    /\ calls = <<>>
    /\ inflight = {}
    /\ replies = [e \in EnvIds |-> <<>>]
    /\ dropped = {}
    /\ debugBuild \in BOOLEAN
    /\ atFailure = {}
    /\ lastOp = "none"
    /\ lastReady = "none"
    /\ lastProbe = "none"
    /\ freshReady = FALSE

\* No connection has been accepted.
ServerIdle ==
    /\ port = 80
    /\ orig = <<>>
    /\ sock = <<>>
    /\ ioBuf = <<>>
    /\ peeks = 0
    /\ detected = "no"
    /\ http = "unset"
    /\ outer = "none"
    /\ inner = "none"
    /\ forwardCalls = 0
    /\ httpServices = 0
    /\ loops = <<>>
    /\ fwdErr = "none"
    /\ connErr = "none"
    /\ signaled = FALSE
    /\ handle = FALSE
    /\ graceful = FALSE
    /\ server = TRUE
    /\ quiesced = FALSE
    /\ reqOpen = FALSE
    /\ reqs = 0

Init == DispatchInit /\ ServerIdle

\* ---- the Dispatch task ---------------------------------------------------

\* Top of the loop: compute needs_ready from self.probe.
TopStep ==
    /\ pc = "Top"
    /\ \E o \in (IF probe = None THEN {"none"} ELSE ProbePoll(Unwrap(probe))) :
          /\ lastProbe' = o
          /\ IF NeedsReady(probe, o)
             THEN probe' = None /\ pc' = "PollReady"
             ELSE probe' = probe /\ pc' = "Recv"
    /\ UNCHANGED <<queue, senders, nextId, rxDropped, svc, shared, calls,
                   inflight, replies, dropped, debugBuild, atFailure, lastOp,
                   lastReady, freshReady>>
    /\ UNCHANGED svars

\* self.inner.poll_ready(): suspend, start the failure broadcast, or go on
\* to the receive phase.
PollReadyStep ==
    /\ pc = "PollReady"
    /\ pc' = AfterPollReady(svc)
    /\ lastReady' = svc
    /\ lastOp' = "poll_ready"
    /\ freshReady' = (svc = "Ready")
    /\ IF svc = "Err"
       THEN \E e \in Errors :
               /\ shared' = Some(Failed(e))
               /\ atFailure' = Range(queue)
       ELSE UNCHANGED <<shared, atFailure>>
    /\ UNCHANGED <<probe, queue, senders, nextId, rxDropped, svc, calls,
                   inflight, replies, dropped, debugBuild, lastProbe>>
    /\ UNCHANGED svars

\* Mutant of DrainStep: `if let` for `while let`, one envelope is failed and
\* poll() returns.
DrainOnce ==
    /\ pc = "Drain"
    /\ pc' = "Done"
    /\ IF RxPoll(queue, senders) = "Some"
       THEN /\ replies' = [replies EXCEPT
                   ![NextEnvelope(queue)] = Append(@, SharedClone(shared))]
            /\ queue' = Remaining(queue)
       ELSE UNCHANGED <<replies, queue>>
    /\ UNCHANGED <<probe, senders, nextId, rxDropped, svc, shared, calls,
                   inflight, dropped, debugBuild, atFailure, lastOp,
                   lastReady, lastProbe, freshReady>>
    /\ UNCHANGED svars

\* One turn of `while let Ok(Async::Ready(Some(InFlight { tx, .. })))`.
DrainStep ==
    /\ pc = "Drain"
    /\ IF RxPoll(queue, senders) = "Some"
       THEN /\ replies' = [replies EXCEPT
                   ![NextEnvelope(queue)] = Append(@, SharedClone(shared))]
            /\ queue' = Remaining(queue)
            /\ pc' = "Drain"
       ELSE /\ pc' = "Done"
            /\ UNCHANGED <<replies, queue>>
    /\ UNCHANGED <<probe, senders, nextId, rxDropped, svc, shared, calls,
                   inflight, dropped, debugBuild, atFailure, lastOp,
                   lastReady, lastProbe, freshReady>>
    /\ UNCHANGED svars

\* Mutant of RecvStep: the loop awaits the response of the call it issued
\* before it receives again.
RecvStepAwaitsResponse ==
    /\ inflight = {}
    /\ pc = "Recv"
    /\ CASE RxPoll(queue, senders) = "Closed" ->
              /\ pc' = "Done"
              /\ lastOp' = "recv"
              /\ UNCHANGED <<probe, queue, calls, inflight, freshReady>>
         [] RxPoll(queue, senders) = "Some" ->
              /\ calls' = Append(calls, NextEnvelope(queue))
              /\ inflight' = inflight \cup {NextEnvelope(queue)}
              /\ queue' = Remaining(queue)
              /\ freshReady' = FALSE
              /\ lastOp' = "call"
              /\ pc' = EndOfIteration(probe, debugBuild)
              /\ UNCHANGED probe
         [] OTHER ->
              /\ \E o \in FreshProbePoll :
                    IF o = "NotReady"
                    THEN probe' = Some(ProbeTimeout) /\ pc' = "Suspended"
                    ELSE probe' = probe /\ pc' = EndOfIteration(probe, debugBuild)
              /\ lastOp' = "recv"
              /\ UNCHANGED <<queue, calls, inflight, freshReady>>
    /\ UNCHANGED <<senders, nextId, rxDropped, svc, shared, replies, dropped,
                   debugBuild, atFailure, lastReady, lastProbe>>
    /\ UNCHANGED svars

\* The receive phase: self.rx.poll(), then the rest of the iteration.
RecvStep ==
    /\ pc = "Recv"
    /\ CASE RxPoll(queue, senders) = "Closed" ->
              /\ pc' = "Done"
              /\ lastOp' = "recv"
              /\ UNCHANGED <<probe, queue, calls, inflight, freshReady>>
         [] RxPoll(queue, senders) = "Some" ->
              /\ calls' = Append(calls, NextEnvelope(queue))
              /\ inflight' = inflight \cup {NextEnvelope(queue)}
              /\ queue' = Remaining(queue)
              /\ freshReady' = FALSE
              /\ lastOp' = "call"
              /\ pc' = EndOfIteration(probe, debugBuild)
              /\ UNCHANGED probe
         [] OTHER ->
              /\ \E o \in FreshProbePoll :
                    IF o = "NotReady"
                    THEN probe' = Some(ProbeTimeout) /\ pc' = "Suspended"
                    ELSE probe' = probe /\ pc' = EndOfIteration(probe, debugBuild)
              /\ lastOp' = "recv"
              /\ UNCHANGED <<queue, calls, inflight, freshReady>>
    /\ UNCHANGED <<senders, nextId, rxDropped, svc, shared, replies, dropped,
                   debugBuild, atFailure, lastReady, lastProbe>>
    /\ UNCHANGED svars

\* The executor polls the task again after poll() returned NotReady.
Wake ==
    /\ pc = "Suspended"
    /\ pc' = "Top"
    /\ UNCHANGED <<probe, queue, senders, nextId, rxDropped, svc, shared,
                   calls, inflight, replies, dropped, debugBuild, atFailure,
                   lastOp, lastReady, lastProbe, freshReady>>
    /\ UNCHANGED svars

\* poll() returned Ready(()) or panicked: the executor drops the future, and
\* with it self.rx, self.probe and whatever the channel still holds.
DropDispatch ==
    /\ pc \in {"Done", "Panicked"}
    /\ ~rxDropped
    /\ rxDropped' = TRUE
    /\ dropped' = dropped \cup Range(queue)
    /\ queue' = <<>>
    /\ probe' = None
    /\ UNCHANGED <<pc, senders, nextId, svc, shared, calls, inflight, replies,
                   debugBuild, atFailure, lastOp, lastReady, lastProbe,
                   freshReady>>
    /\ UNCHANGED svars

\* ---- the spawned response futures ----------------------------------------

\* self.inner.call(request).then(|res| tx.send(res.map_err(Into::into)))
Complete ==
    \E e \in inflight, r \in CallResults :
        /\ inflight' = inflight \ {e}
        /\ replies' = [replies EXCEPT ![e] = Append(@, r)]
        /\ UNCHANGED <<pc, probe, queue, senders, nextId, rxDropped, svc,
                       shared, calls, dropped, debugBuild, atFailure, lastOp,
                       lastReady, lastProbe, freshReady>>
        /\ UNCHANGED svars

\* ---- the environment -------------------------------------------------------

\* A producer puts an InFlight envelope into the bounded channel.
Enqueue ==
    /\ ~rxDropped
    /\ senders > 0
    /\ nextId <= MaxEnv
    /\ Len(queue) < Capacity
    /\ queue' = Append(queue, nextId)
    /\ nextId' = nextId + 1
    /\ UNCHANGED <<pc, probe, senders, rxDropped, svc, shared, calls,
                   inflight, replies, dropped, debugBuild, atFailure, lastOp,
                   lastReady, lastProbe, freshReady>>
    /\ UNCHANGED svars

\* A producer drops its Sender handle.
DropSender ==
    /\ senders > 0
    /\ senders' = senders - 1
    /\ UNCHANGED <<pc, probe, queue, nextId, rxDropped, svc, shared, calls,
                   inflight, replies, dropped, debugBuild, atFailure, lastOp,
                   lastReady, lastProbe, freshReady>>
    /\ UNCHANGED svars

\* Time passes for the armed probe.
Tick ==
    /\ probe # None
    /\ Unwrap(probe) > 0
    /\ probe' = Some(Unwrap(probe) - 1)
    /\ UNCHANGED <<pc, queue, senders, nextId, rxDropped, svc, shared, calls,
                   inflight, replies, dropped, debugBuild, atFailure, lastOp,
                   lastReady, lastProbe, freshReady>>
    /\ UNCHANGED svars

\* The inner service changes what poll_ready answers; a failure stays.
SvcChange ==
    /\ svc # "Err"
    /\ \E s \in {"Ready", "NotReady", "Err"} \ {svc} : svc' = s
    /\ UNCHANGED <<pc, probe, queue, senders, nextId, rxDropped, shared,
                   calls, inflight, replies, dropped, debugBuild, atFailure,
                   lastOp, lastReady, lastProbe, freshReady>>
    /\ UNCHANGED svars

\* ---- specifications --------------------------------------------------------
LoopStep == TopStep \/ PollReadyStep \/ DrainStep \/ RecvStep

Next ==
    \/ TopStep
    \/ PollReadyStep
    \/ DrainStep
    \/ RecvStep
    \/ Wake
    \/ DropDispatch
    \/ Complete
    \/ Enqueue
    \/ DropSender
    \/ Tick
    \/ SvcChange

Spec == Init /\ [][Next]_vars

\* What the task registered for when it returned NotReady has happened.
WakeEvent ==
    IF lastReady = "NotReady"
    THEN svc # "NotReady"
    ELSE \/ queue # <<>>
         \/ senders = 0
         \/ (probe # None /\ Unwrap(probe) = 0)

\* The executor runs a runnable task and polls a notified one.
FairSpec ==
    /\ Spec
    /\ WF_vars(LoopStep)
    /\ WF_vars(Wake /\ WakeEvent)

TypeOK ==
    /\ pc \in {"Top", "PollReady", "Drain", "Recv", "Suspended", "Done", "Panicked"}
    /\ probe \in {None} \cup {Some(n) : n \in 0..ProbeTimeout}
    /\ Len(queue) <= Capacity
    /\ senders \in 0..NumSenders
    /\ nextId \in 1..(MaxEnv + 1)

\* ---- claims ----------------------------------------------------------------
Running == {"Top", "PollReady", "Recv", "Suspended"}

\* C1: when poll_ready fails, every envelope that was in the channel at that
\* instant is sent one reply, and all those replies are the one shared
\* Failed value built from that error.  Until the broadcast reaches it an
\* envelope waits in the channel; once poll() has returned all are answered.
C1_FailureBroadcast ==
    shared # None =>
        \A e \in atFailure :
            \/ replies[e] = <<Unwrap(shared)>>
            \/ (pc = "Drain" /\ e \in Range(queue) /\ replies[e] = <<>>)

\* C1 witness: the loop has returned after failing two or more queued envelopes.
C1_Witness ==
    /\ pc = "Done"
    /\ shared # None
    /\ Cardinality(atFailure) >= 2
    /\ \A e \in atFailure : replies[e] = <<Unwrap(shared)>>

\* C2: no envelope that was enqueued has its reply sender discarded
\* unanswered.
C2_NoEnvelopeDropped == dropped = {}

\* C3: once poll_ready has returned an error, inner.call is never invoked
\* again, and poll() runs to its return without suspending: the task is in
\* the failure broadcast or has completed.
C3_FailStop ==
    /\ [][shared # None => calls' = calls]_vars
    /\ [](shared # None => pc \in {"Drain", "Done"})

\* C3 witness: the loop completed on a readiness error after it had
\* dispatched, with a call still running.
C3_Witness ==
    /\ shared # None
    /\ pc = "Done"
    /\ Len(calls) >= 1
    /\ inflight # {}

\* C4: every envelope's reply sender is sent to at most once.
C4_AtMostOneReply == \A e \in EnvIds : Len(replies[e]) <= 1

\* C4 witness: one run with a call result delivered to one envelope and the
\* shared failure delivered to another.
C4_Witness ==
    /\ shared # None
    /\ \E d \in EnvIds : replies[d] = <<Unwrap(shared)>>
    /\ \E c \in EnvIds : Len(replies[c]) = 1 /\ replies[c][1] \in CallResults

\* C5: inner.call is invoked for envelopes in the order they were enqueued
\* (ids follow the enqueue order, and none is skipped).
C5_FifoCalls == \A i \in 1..Len(calls) : calls[i] = i

\* C5 witness: three envelopes called in order, the last one answered while
\* the first is still running.
C5_Witness ==
    /\ Len(calls) = 3
    /\ replies[3] # <<>>
    /\ 1 \in inflight

\* C6: every inner.call is preceded by a Ready poll_ready that no earlier
\* call has consumed.
C6_CheckThenCall == [][Len(calls') > Len(calls) => freshReady]_vars

\* C7 as stated: after a dispatch the next thing the loop does to the inner
\* service or the channel is not a readiness poll.
C7_NoRepollAfterDispatch == [][lastOp = "call" => lastOp' # "poll_ready"]_vars

\* C7 amended: after a dispatch with no probe armed, the loop polls readiness
\* before it takes anything more from the channel; after a dispatch with a
\* probe armed, the loop (where it goes on) receives next without a readiness
\* poll exactly when that probe's poll says not-yet-due.
C7_RepollUnlessProbeArmed ==
    [][lastOp = "call" =>
         /\ (probe = None =>
               /\ calls' = calls
               /\ lastOp' \in {"call", "poll_ready"})
         /\ (probe # None /\ pc = "Top" /\ pc' # "Top" =>
               IF lastProbe' = "NotReady"
               THEN pc' = "Recv" /\ probe' = probe
               ELSE pc' = "PollReady" /\ probe' = None)]_vars

\* C7 witness: an envelope was dispatched with no probe armed and the loop is
\* about to poll readiness again.
C7_Witness ==
    /\ lastOp = "call"
    /\ pc = "PollReady"
    /\ lastProbe = "none"

\* C8 as stated: an armed probe is given up for a readiness poll only when
\* its timer has run out.
C8_RepollOnlyWhenFired ==
    [][probe # None /\ probe' = None /\ ~rxDropped' => Unwrap(probe) = 0]_vars

\* C8 amended: readiness is polled only with no probe armed, and an armed
\* probe is given up only at the top of the loop, when its timer has run out
\* or its poll reported a timer error.
C8_RepollWhenFiredOrTimerError ==
    /\ [](pc = "PollReady" => probe = None)
    /\ [][probe # None /\ probe' = None /\ ~rxDropped' =>
            /\ pc = "Top"
            /\ (Unwrap(probe) = 0 \/ lastProbe' = "Err")]_vars

\* C8 witness: idle with a ready service and an empty channel, the loop was
\* woken before the timer was due and suspended again without a readiness poll.
C8_Witness ==
    /\ pc = "Suspended"
    /\ probe # None
    /\ lastProbe = "NotReady"
    /\ lastOp = "recv"
    /\ queue = <<>>
    /\ svc = "Ready"

\* C9: with the channel closed (no sender, nothing queued) and the loop
\* running, the loop completes normally, unless the inner service stops
\* being ready.
C9_TerminatesOnClose ==
    (senders = 0 /\ queue = <<>> /\ pc \in Running /\ shared = None)
        ~> ((pc = "Done" /\ shared = None) \/ svc # "Ready")

\* C9 witness: the loop completed on the closed channel while its probe
\* timer was armed.
C9_Witness ==
    /\ pc = "Done"
    /\ shared = None
    /\ senders = 0
    /\ probe # None
    /\ lastProbe = "NotReady"

\* C10: while the last answer of poll_ready is not-ready the loop takes
\* nothing from the channel; the channel never holds more than its capacity,
\* and no producer can enqueue into a full channel.
C10_Backpressure ==
    /\ [][lastReady = "NotReady" =>
            calls' = calls /\ Len(queue') >= Len(queue)]_vars
    /\ [](Len(queue) <= Capacity)
    /\ [](Len(queue) = Capacity => ~ENABLED Enqueue)

\* C10 witness: the loop is suspended on a not-ready service, the channel is
\* full, and a producer that has more to send is stalled.
C10_Witness ==
    /\ pc = "Suspended"
    /\ lastReady = "NotReady"
    /\ Len(queue) = Capacity
    /\ senders > 0
    /\ nextId <= MaxEnv

\* C11: the loop is never blocked on a response: with calls still running it
\* can always take its next step (receive, dispatch, return) or be woken.
C11_NeverBlockedOnResponse ==
    (inflight # {} /\ pc \in Running \cup {"Drain"}) =>
        ENABLED (LoopStep \/ Wake)

\* C11 witness: two envelopes were dispatched and the loop returned while
\* both calls are still running.
C11_Witness ==
    /\ pc = "Done"
    /\ Len(calls) >= 2
    /\ {1, 2} \subseteq inflight

\* C18: whenever an iteration of the loop reaches its end without returning,
\* no probe is armed.
C18_ProbeClearAtEndOfIteration ==
    [][pc = "Recv" /\ pc' \in {"Top", "Panicked"} => probe' = None]_vars

\* C19: when the poll of an armed probe reports fired or a timer error, the
\* loop clears the probe and goes to the readiness poll before any receive;
\* that step ends no loop, fails no envelope and sends no reply.
C19_ProbeOutcomeRechecksReadiness ==
    [][(pc = "Top" /\ pc' # "Top" /\ probe # None
          /\ lastProbe' \in {"Ready", "Err"}) =>
         /\ probe' = None
         /\ pc' = "PollReady"
         /\ queue' = queue
         /\ shared' = shared
         /\ replies' = replies
         /\ dropped' = dropped]_vars

\* C19 witness: the armed probe reported a timer error before it was due, and
\* the loop, still alive, polled readiness next.
C19_Witness ==
    /\ lastProbe = "Err"
    /\ lastOp = "poll_ready"
    /\ pc = "Recv"
    /\ Len(calls) >= 1
    /\ shared = None

\* ---- ProtocolDetect and Server: values ------------------------------------
Min(a, b) == IF a <= b THEN a ELSE b

Ports == {25, 80}                 \* target ports of accepted connections
SkipPorts == {25}                 \* skip_ports: detection is disabled there
Bytes == {"P", "R", "G"}          \* byte values a client sends
Streams == UNION {[1..n -> Bytes] : n \in 0..MaxStream}
Preface == <<"P", "R">>           \* the HTTP/2 connection preface
FwdErrors == {"connect_error"}    \* errors of the forward capability's accept
ConnErrors == {"io_error"}        \* errors of a running forward or serving loop

IsPrefixOf(a, b) == Len(a) <= Len(b) /\ SubSeq(b, 1, Len(a)) = a

\* HttpVersion::from_prefix: the HTTP/2 preface, an HTTP/1 request line, or
\* neither.
FromPrefix(b) ==
    IF IsPrefixOf(Preface, b) THEN "H2"
    ELSE IF Len(b) >= 1 /\ b[1] = "G" THEN "Http1"
    ELSE "None"

\* Number of bytes one io.peek(capacity) may find.
PeekCounts(s, capacity) == 0..Min(Len(s), capacity)

\* Mutant of SkipDetection: the skip set is never consulted.
SkipDetectionNever(p) == FALSE

\* self.skip_ports.contains(&port)
SkipDetection(p) == p \in SkipPorts

\* Mutant of PeekedIo: the stream is handed on without the peeked prefix.
PeekedIoWithoutPrefix(prefix) == <<>>

\* BoxedIo::new(peek): the stream handed on replays the peeked prefix first.
PeekedIo(prefix) == prefix

\* The bytes a reader of the stream handed on by detect() gets.
Readable == ioBuf \o sock

\* Mutant of BuildsHttpService: the service is built before the match.
BuildsHttpServiceAlways(h) == TRUE

\* Whether call() reaches self.make_http.new_service(proto.tls).
BuildsHttpService(h) == h # "None"

\* Mutant of Strategy: the HTTP/1 arm is configured http2_only.
StrategySwapped(h) ==
    CASE h = "None"  -> "tcp"
      [] h = "Http1" -> "h2"
      [] OTHER       -> "h2"

\* The future call() builds for proto.http.
Strategy(h) ==
    CASE h = "None"  -> "tcp"
      [] h = "Http1" -> "h1"
      [] OTHER       -> "h2"

\* Mutant of ForwardDrainMode: the connection future is returned bare.
ForwardDrainModeUntracked == "untracked"

\* drain.ignore_signal().release_after(conn)
ForwardDrainMode == "release_after"

\* Mutant of HttpDrainMode: the serving loop ignores the signal as well.
HttpDrainModeIgnoresSignal == "release_after"

\* drain.watch(conn, |conn| Pin::new(conn).graceful_shutdown())
HttpDrainMode == "watch"

DrainMode(strategy) ==
    IF strategy = "tcp" THEN ForwardDrainMode ELSE HttpDrainMode

\* Mutant of Propagate: the error is discarded.
PropagateSwallowed(e) == "ok"

\* `.map_err(Into::into)?` and `.await?`: the phase resolves with the error.
Propagate(e) == e

Serving(kind) == inner = "running" /\ loops # <<>> /\ loops[Len(loops)] \in kind

\* ---- ProtocolDetect::detect -------------------------------------------------
Detect ==
    /\ detected = "no"
    /\ IF SkipDetection(port)
       THEN /\ detected' = "ok"
            /\ http' = "None"
            /\ UNCHANGED <<sock, ioBuf, peeks>>
       ELSE /\ peeks' = peeks + 1
            /\ \/ /\ detected' = "err"
                  /\ UNCHANGED <<sock, ioBuf, http>>
               \/ \E n \in PeekCounts(sock, PEEK_CAPACITY) :
                     /\ detected' = "ok"
                     /\ http' = FromPrefix(SubSeq(sock, 1, n))
                     /\ ioBuf' = PeekedIo(SubSeq(sock, 1, n))
                     /\ sock' = SubSeq(sock, n + 1, Len(sock))
    /\ UNCHANGED <<port, orig, callVars, drainVars, reqVars, vars>>

\* ---- Server::call -----------------------------------------------------------

\* The synchronous part of call(): pick the branch, clone the drain, and for
\* HTTP build the per-connection service.
Call ==
    /\ server
    /\ detected = "ok"
    /\ outer = "none"
    /\ outer' = "pending"
    /\ handle' = TRUE
    /\ httpServices' = IF BuildsHttpService(http)
                       THEN httpServices + 1 ELSE httpServices
    /\ UNCHANGED <<ioVars, inner, forwardCalls, loops, fwdErr, connErr,
                   signaled, graceful, server, quiesced, reqVars, vars>>

\* The outer future runs: the forward capability is invoked with
\* (proto.tls, io) and may fail; the HTTP branches only wrap the inner future.
OuterResolve ==
    /\ outer = "pending"
    /\ IF Strategy(http) = "tcp"
       THEN /\ forwardCalls' = forwardCalls + 1
            /\ \/ \E e \in FwdErrors :
                     /\ fwdErr' = e
                     /\ outer' = Propagate(e)
                     /\ handle' = FALSE
                     /\ UNCHANGED inner
               \/ /\ outer' = "ok"
                  /\ inner' = "ready"
                  /\ handle' = (ForwardDrainMode # "untracked")
                  /\ UNCHANGED fwdErr
       ELSE /\ outer' = "ok"
            /\ inner' = "ready"
            /\ UNCHANGED <<forwardCalls, fwdErr, handle>>
    /\ UNCHANGED <<ioVars, httpServices, loops, connErr, signaled, graceful,
                   server, quiesced, reqVars, vars>>

\* The caller drives the inner future: the forward's connection future, or
\* serve_connection under http1_only / http2_only, starts running.
InnerStart ==
    /\ inner = "ready"
    /\ inner' = "running"
    /\ loops' = Append(loops, Strategy(http))
    /\ UNCHANGED <<ioVars, outer, forwardCalls, httpServices, fwdErr, connErr,
                   drainVars, reqVars, vars>>

\* The forwarded TCP session ends by itself, with or without an error.
ForwardFinish ==
    /\ Serving({"tcp"})
    /\ \/ inner' = "ok" /\ UNCHANGED connErr
       \/ \E e \in ConnErrors : connErr' = e /\ inner' = Propagate(e)
    /\ handle' = FALSE
    /\ UNCHANGED <<ioVars, outer, forwardCalls, httpServices, loops, fwdErr,
                   signaled, graceful, server, quiesced, reqVars, vars>>

\* A request cycle begins on the HTTP connection, unless it is shutting down.
ReqBegin ==
    /\ Serving({"h1", "h2"})
    /\ ~reqOpen
    /\ ~graceful
    /\ reqs < MaxReqs
    /\ reqOpen' = TRUE
    /\ reqs' = reqs + 1
    /\ UNCHANGED <<ioVars, callVars, drainVars, vars>>

\* The request cycle in flight completes.
ReqEnd ==
    /\ Serving({"h1", "h2"})
    /\ reqOpen
    /\ reqOpen' = FALSE
    /\ UNCHANGED <<reqs, ioVars, callVars, drainVars, vars>>

\* The serving loop ends: with an error at any time, or cleanly between
\* request cycles (the client closed, or graceful shutdown was requested).
HttpFinish ==
    /\ Serving({"h1", "h2"})
    /\ \/ \E e \in ConnErrors : connErr' = e /\ inner' = Propagate(e)
       \/ ~reqOpen /\ inner' = "ok" /\ UNCHANGED connErr
    /\ handle' = FALSE
    /\ reqOpen' = FALSE
    /\ UNCHANGED <<reqs, ioVars, outer, forwardCalls, httpServices, loops,
                   fwdErr, signaled, graceful, server, quiesced, vars>>

\* ---- the drain ----------------------------------------------------------------

\* The process asks for shutdown.
Signal ==
    /\ ~signaled
    /\ signaled' = TRUE
    /\ UNCHANGED <<handle, graceful, server, quiesced, ioVars, callVars,
                   reqVars, vars>>

\* A watching connection sees the signal and runs its shutdown callback.
DeliverSignal ==
    /\ signaled
    /\ inner = "running"
    /\ ~graceful
    /\ DrainMode(loops[Len(loops)]) = "watch"
    /\ graceful' = TRUE
    /\ UNCHANGED <<signaled, handle, server, quiesced, ioVars, callVars,
                   reqVars, vars>>

\* The accept loop ends and drops the Server with its drain::Watch.
DropServer ==
    /\ server
    /\ server' = FALSE
    /\ UNCHANGED <<signaled, handle, graceful, quiesced, ioVars, callVars,
                   reqVars, vars>>

\* The drain resolves once it was signalled and every Watch is released.
Quiesce ==
    /\ signaled
    /\ ~server
    /\ ~handle
    /\ ~quiesced
    /\ quiesced' = TRUE
    /\ UNCHANGED <<signaled, handle, graceful, server, ioVars, callVars,
                   reqVars, vars>>

\* ---- one connection ----------------------------------------------------------
ServerInit ==
    /\ DispatchInit
    /\ svc = "Ready"
    /\ debugBuild = FALSE
    /\ port \in Ports
    /\ orig \in Streams
    /\ sock = orig
    /\ ioBuf = <<>>
    /\ peeks = 0
    /\ detected = "no"
    /\ http = "unset"
    /\ outer = "none"
    /\ inner = "none"
    /\ forwardCalls = 0
    /\ httpServices = 0
    /\ loops = <<>>
    /\ fwdErr = "none"
    /\ connErr = "none"
    /\ signaled = FALSE
    /\ handle = FALSE
    /\ graceful = FALSE
    /\ server = TRUE
    /\ quiesced = FALSE
    /\ reqOpen = FALSE
    /\ reqs = 0

ServerNext ==
    \/ Detect
    \/ Call
    \/ OuterResolve
    \/ InnerStart
    \/ ForwardFinish
    \/ ReqBegin
    \/ ReqEnd
    \/ HttpFinish
    \/ Signal
    \/ DeliverSignal
    \/ DropServer
    \/ Quiesce

ServerSpec == ServerInit /\ [][ServerNext]_<<svars, vars>>

ServerTypeOK ==
    /\ port \in Ports
    /\ Len(sock) <= MaxStream
    /\ detected \in {"no", "ok", "err"}
    /\ http \in {"unset", "None", "Http1", "H2"}
    /\ outer \in {"none", "pending", "ok"} \cup FwdErrors
    /\ inner \in {"none", "ready", "running", "ok"} \cup ConnErrors
    /\ reqs \in 0..MaxReqs

\* ---- claims about ProtocolDetect and Server ----------------------------------
Ended == {"ok"} \cup ConnErrors

\* C12: for a Protocol with http = None, call never builds an HTTP service,
\* and it invokes the forward capability once: never more, and exactly once
\* by the time the outer future has resolved.
C12_ForwardOnceNoHttpService ==
    (http = "None" /\ outer # "none") =>
        /\ httpServices = 0
        /\ forwardCalls <= 1
        /\ (outer # "pending" => forwardCalls = 1)

\* C12 witness: a connection detected as not HTTP was forwarded to its end.
C12_Witness ==
    /\ http = "None"
    /\ port \notin SkipPorts
    /\ inner = "ok"
    /\ forwardCalls = 1
    /\ httpServices = 0

\* C13: a running forward is not touched by the shutdown signal (no shutdown
\* callback can reach it and the signal leaves it running), and the drain
\* does not resolve while a forward is accepted and not finished.
C13_ForwardShieldedFromShutdown ==
    /\ [](Serving({"tcp"}) => ~ENABLED DeliverSignal)
    /\ [][Serving({"tcp"}) /\ signaled' # signaled => inner' = inner]_svars
    /\ [](quiesced => ~(http = "None" /\ inner \in {"ready", "running"}))

\* C13 witness: the signal was sent, the Server is gone, and the forward,
\* still running, alone keeps the drain from resolving.
C13_Witness ==
    /\ Serving({"tcp"})
    /\ signaled
    /\ ~server
    /\ ~quiesced
    /\ ~ENABLED Quiesce

\* C14: on an HTTP/1 or HTTP/2 connection being served the signal leads to
\* the graceful-shutdown callback; once it ran no request cycle begins, and
\* the connection closes cleanly only with no request cycle in flight.
C14_GracefulHttpShutdown ==
    /\ []((Serving({"h1", "h2"}) /\ signaled /\ ~graceful) =>
            ENABLED DeliverSignal)
    /\ [][graceful => reqs' = reqs]_svars
    /\ [][graceful /\ inner = "running" /\ inner' = "ok" => ~reqOpen]_svars
    /\ [](quiesced => ~Serving({"h1", "h2"}))

\* C14 witness: graceful shutdown was requested with a request cycle in
\* flight, and the connection is still being served.
C14_Witness ==
    /\ Serving({"h1", "h2"})
    /\ signaled
    /\ graceful
    /\ reqOpen

\* C15: for a target port in the skip set detect() does not peek, cannot
\* fail, and returns http = None with the stream as it was.
C15_SkipPortsBypassDetection ==
    port \in SkipPorts =>
        /\ peeks = 0
        /\ detected # "err"
        /\ (detected = "ok" => http = "None" /\ ioBuf = <<>> /\ sock = orig)

\* C15 witness: a connection to a skipped port that starts with the HTTP/2
\* preface went through detect().
C15_Witness ==
    /\ port \in SkipPorts
    /\ detected = "ok"
    /\ IsPrefixOf(Preface, orig)
    /\ http = "None"

\* C16: the bytes readable from the stream detect() returns are the bytes
\* that were on the stream before it.
C16_PeekNonDestructive == detected = "ok" => Readable = orig

\* C16 witness: detect() peeked a proper, non-empty prefix of the stream.
C16_Witness ==
    /\ detected = "ok"
    /\ peeks = 1
    /\ Len(ioBuf) >= 1
    /\ Len(sock) >= 1

\* C17: an error of the forward capability resolves the outer phase (on
\* accept) or the inner phase (while running), an error of the serving loop
\* resolves the inner phase, each with that error; after it nothing is
\* invoked again and the results stay.
C17_ErrorsPropagateNoRetry ==
    /\ [](fwdErr # "none" => outer = fwdErr /\ inner = "none")
    /\ [](connErr # "none" => inner = connErr)
    /\ [][(fwdErr # "none" \/ connErr # "none") =>
            /\ forwardCalls' = forwardCalls
            /\ httpServices' = httpServices
            /\ loops' = loops
            /\ outer' = outer
            /\ inner' = inner]_svars

\* C17 witness: an HTTP/2 serving loop failed after a request cycle and the
\* inner phase resolved with its error.
C17_Witness ==
    /\ connErr # "none"
    /\ inner = connErr
    /\ loops = <<"h2">>
    /\ reqs >= 1

\* C20: a connection starts at most one strategy, the one its Protocol.http
\* names; the HTTP ones build one service and never forward; Protocol.http
\* does not change, and once the strategy ended nothing starts again.
C20_OneStrategyPerConnection ==
    /\ [](Len(loops) <= 1)
    /\ [](loops # <<>> =>
            /\ (http = "None" => loops = <<"tcp">>)
            /\ (http = "Http1" => loops = <<"h1">>)
            /\ (http = "H2" => loops = <<"h2">>))
    /\ []((http \in {"Http1", "H2"} /\ outer # "none") =>
            httpServices = 1 /\ forwardCalls = 0)
    /\ [][http # "unset" => http' = http]_svars
    /\ [][(inner \in Ended) => (inner' = inner /\ loops' = loops)]_svars

\* C20 witness: an HTTP/1 connection was served for a request cycle and closed.
C20_Witness ==
    /\ http = "Http1"
    /\ inner = "ok"
    /\ loops = <<"h1">>
    /\ reqs >= 1
    /\ httpServices = 1

====
